---- MODULE Spec2Model ----
(***************************************************************************)
(* Model of tensorflow/core/kernels/data/map_dataset_op.cc: the MapDataset *)
(* kernel, its Dataset node and the Iterator that pulls a record from the  *)
(* upstream iterator and applies map_func_ to it.                          *)
(***************************************************************************)
EXTENDS Integers, Sequences, FiniteSets, TLC

\* ------------------------------------------------------------------ bounds
MaxPulls == 2          \* longest upstream dataset (number of pull outcomes)
MaxCalls == 4          \* GetNext calls issued on one iterator
NumIterators == 2      \* iterators made from the one Dataset node
NumThreads == 2        \* concurrent callers of GetNext
MaxPlanLen == 3        \* longest short-circuit plan of the plan specification

\* ------------------------------------------------------------- value sets
TensorVals == {1, 2}
MovedFrom == 0         \* a Tensor after std::move: no longer holds the value
Iterators == 1..NumIterators
Threads == 1..NumThreads
SingleIterator == {1}

\* Status values: a code and the message that identifies where it was made.
OK == [code |-> "OK", msg |-> ""]
UpstreamErrors == {[code |-> "OutOfRange", msg |-> "input"],
                   [code |-> "Internal", msg |-> "input"]}
RunStatuses == {OK, [code |-> "OutOfRange", msg |-> "f"],
                    [code |-> "Internal", msg |-> "f"]}
SaveError == [code |-> "Unavailable", msg |-> "input save"]
RestoreError == [code |-> "NotFound", msg |-> "input restore"]
MakeIteratorError == [code |-> "Internal", msg |-> "input MakeIterator"]
InstantiateError == [code |-> "InvalidArgument", msg |-> "Instantiate"]

IsOutOfRange(s) == s.code = "OutOfRange"

\* Records of the upstream dataset: one Tensor per function argument.
Records == {<<1, 2>>, <<2, 1>>}
\* What one upstream pull can produce before the dataset is exhausted.
PullOutcomes == {[status |-> OK, args |-> r] : r \in Records}
                \cup {[status |-> e, args |-> <<>>] : e \in UpstreamErrors}

RECURSIVE SeqsUpTo(_, _)
SeqsUpTo(S, n) ==
    IF n = 0 THEN {<<>>}
    ELSE LET shorter == SeqsUpTo(S, n - 1)
         IN shorter \cup {Append(s, x) : s \in {q \in shorter : Len(q) = n - 1}, x \in S}

\* The plans ComputeShortCircuitIndices can hand to MakeDataset: empty when
\* the function is not a projection, else one source index per output.
Plans == {<<>>, <<0>>, <<1, 0>>, <<2, 0, 2>>, <<1, 0, 1>>, <<0, 2>>}
CapturedLists == {<<7>>}
\* The indices valid for two arguments and one captured input.
ValidIndices == {0, 1, 2}

NoCheckpoint == 0 - 1

VARIABLES
    input_,            \* Dataset::input_: the upstream dataset's pull outcomes
    func_,             \* Dataset::func_: the function, as status per first argument
    captured_inputs,   \* captured_func_->captured_inputs()
    indices,           \* short-circuit indices captured by map_func
    captured_func_,    \* Dataset::captured_func_: the CapturedFunction object
    output_types_,     \* Dataset::output_types_: one type per output
    iter_state,        \* per iterator: "created", "initialized" or "failed"
    input_impl_,       \* Iterator::input_impl_ per iterator: state and position
    checkpoint,        \* what SaveInput wrote for each iterator
    exec_uses,         \* <<iterator, CapturedFunction object, call>> made so far
    inst_count,        \* Instantiate calls made on behalf of each iterator
    hist,              \* results of the GetNext calls of each iterator's timeline
    saved_len,         \* Len(hist) when the checkpoint was written
    ref,               \* results that followed the Save that was last restored
    seg,               \* results since the last Restore
    last,              \* what the last completed handler call did
    calls,             \* GetNext calls issued per iterator
    frames             \* per thread: the GetNextInternal call in progress

vars == <<input_, func_, captured_inputs, indices, captured_func_, output_types_,
          iter_state,
          input_impl_,
          checkpoint, exec_uses, inst_count, hist, saved_len, ref, seg, last,
          calls, frames>>

dataset_vars == <<input_, func_, captured_inputs, indices, captured_func_,
                  output_types_>>

\* The Dataset members other than the captured inputs, which map_func reads.
dataset_rest == <<input_, func_, indices, captured_func_, output_types_>>

\* -------------------------------------------------- external collaborators
\* IteratorBase::GetNext of the upstream iterator at position pos: the next
\* outcome of the dataset, or end_of_sequence once it is exhausted.  An error
\* leaves *end_of_sequence as the caller initialised it (false).
UpstreamGetNext(pos) ==
    IF pos >= Len(input_)
    THEN [status |-> OK, eos |-> TRUE, args |-> <<>>, pos |-> pos, src |-> 0]
    ELSE [status |-> input_[pos + 1].status, eos |-> FALSE,
          args |-> input_[pos + 1].args, pos |-> pos + 1, src |-> pos + 1]

\* The user's function f: not the identity, so a result tells which record
\* it was computed from and whether it went through f at all.
UserFunc(args) ==
    [i \in 1..Len(args) |-> 10 * args[i] + captured_inputs[1]]

\* CapturedFunction::Run: f on the arguments, failing as func_ says.
CapturedFunctionRun(args) ==
    LET s == func_[args[1]]
    IN [status |-> s, out |-> IF s = OK THEN UserFunc(args) ELSE <<>>,
        args |-> args, runs |-> 1, scs |-> 0,
        sel |-> [cap |-> captured_inputs, moves |-> [i \in 1..Len(args) |-> 0],
                 stale |-> 0, ops |-> <<>>]]

\* ComputeMoveVector: position i may be moved iff its index occurs once.
ComputeMoveVector(ix) ==
    [i \in 1..Len(ix) |->
        Cardinality({j \in 1..Len(ix) : ix[j] = ix[i]}) = 1]

\* ------------------------------------------------------------- MakeDataset
\* The loop of the short-circuit map_func from position i on.  st.args is
\* the lambda's own copy of the arguments, st.out the caller's out_tensors
\* and st.cap the captured inputs of the Dataset's CapturedFunction; st.ops
\* tells for each output whether it was moved or copied, st.moves how often
\* each argument slot was moved from and st.stale how many reads found a
\* slot already moved from.
\* Mutant: the slot is moved from before it is pushed.
SelectArgMovesFirst(st, slot, movable) ==
    IF movable
    THEN [st EXCEPT !.out = Append(@, MovedFrom), !.args[slot] = MovedFrom,
                    !.moves[slot] = @ + 1, !.ops = Append(@, "move")]
    ELSE [st EXCEPT !.out = Append(@, st.args[slot]), !.ops = Append(@, "copy")]

\* Mutant: every selected argument is moved, whatever can_move says.
SelectArgAlwaysMoves(st, slot, movable) ==
    [st EXCEPT !.out = Append(@, st.args[slot]),
               !.stale = IF st.args[slot] = MovedFrom THEN @ + 1 ELSE @,
               !.args[slot] = MovedFrom,
               !.moves[slot] = @ + 1,
               !.ops = Append(@, "move")]

\* Mutant: every selected argument is copied, whatever can_move says.
SelectArgNeverMoves(st, slot, movable) ==
    [st EXCEPT !.out = Append(@, st.args[slot]),
               !.stale = IF st.args[slot] = MovedFrom THEN @ + 1 ELSE @,
               !.ops = Append(@, "copy")]

\* Lines 72-76: push argument slot, moved from args when can_move[i] holds
\* and copied otherwise.
SelectArg(st, slot, movable) ==
    LET read == [st EXCEPT !.out = Append(@, st.args[slot]),
                           !.stale = IF st.args[slot] = MovedFrom THEN @ + 1 ELSE @]
    IN IF movable
       THEN [read EXCEPT !.args[slot] = MovedFrom, !.moves[slot] = @ + 1,
                         !.ops = Append(@, "move")]
       ELSE [read EXCEPT !.ops = Append(@, "copy")]

\* Mutant: a captured input is moved out of the Dataset when can_move[i] holds.
SelectCapturedMoves(st, k, movable) ==
    IF movable
    THEN [st EXCEPT !.out = Append(@, st.cap[k]), !.cap[k] = MovedFrom,
                    !.ops = Append(@, "move")]
    ELSE [st EXCEPT !.out = Append(@, st.cap[k]), !.ops = Append(@, "copy")]

\* Line 78: push captured input k, always a copy (captured_inputs is a const
\* reference); can_move[i] is not consulted.
SelectCaptured(st, k, movable) ==
    [st EXCEPT !.out = Append(@, st.cap[k]), !.ops = Append(@, "copy")]

RECURSIVE ShortCircuitLoop(_, _)
ShortCircuitLoop(st, i) ==
    IF i > Len(indices) THEN st
    ELSE LET num_args == Len(st.args)
             can_move == ComputeMoveVector(indices)
             ix == indices[i]
         IN ShortCircuitLoop(
                IF ix < num_args
                THEN SelectArg(st, ix + 1, can_move[i])
                ELSE SelectCaptured(st, ix - num_args + 1, can_move[i]),
                i + 1)

\* Mutant: an index that selects a captured input is reported out of range.
ShortCircuitChecksRange(args) ==
    LET st == ShortCircuitLoop(
                  [args |-> args, out |-> <<>>, cap |-> captured_inputs,
                   moves |-> [i \in 1..Len(args) |-> 0], stale |-> 0,
                   ops |-> <<>>], 1)
    IN [status |-> IF \E i \in 1..Len(indices) : indices[i] >= Len(args)
                   THEN [code |-> "OutOfRange", msg |-> "index"] ELSE OK,
        out |-> st.out, args |-> st.args, runs |-> 0, scs |-> 1,
        sel |-> [cap |-> st.cap, moves |-> st.moves, stale |-> st.stale,
                 ops |-> st.ops]]

ShortCircuit(args) ==
    LET st == ShortCircuitLoop(
                  [args |-> args, out |-> <<>>, cap |-> captured_inputs,
                   moves |-> [i \in 1..Len(args) |-> 0], stale |-> 0,
                   ops |-> <<>>], 1)
    IN [status |-> OK, out |-> st.out, args |-> st.args, runs |-> 0, scs |-> 1,
        sel |-> [cap |-> st.cap, moves |-> st.moves, stale |-> st.stale,
                 ops |-> st.ops]]

\* Mutant: map_func always goes through the executor.
map_funcAlwaysRuns(args) == CapturedFunctionRun(args)

\* map_func as MakeDataset builds it: the executor when the plan is empty,
\* the projection otherwise.
map_func(args) ==
    IF indices = <<>> THEN CapturedFunctionRun(args) ELSE ShortCircuit(args)

\* ---------------------------------------------------------------- Iterator
\* The CapturedFunction object an iterator instantiates and runs: the one the
\* Dataset owns (lines 180 and 55-60, dataset()->captured_func_).
ExecutorOf(it) == captured_func_

\* Mutant: the OutOfRange status is returned like any other.
ConvertStatusNone(s) == [status |-> s, eos |-> FALSE]

\* Mutant: every failure of map_func_ ends the sequence.
ConvertStatusAnyError(s) ==
    IF s # OK THEN [status |-> OK, eos |-> TRUE] ELSE [status |-> s, eos |-> FALSE]

\* Lines 197-205: what GetNextInternal returns for map_func_'s status s.
ConvertStatus(s) ==
    IF IsOutOfRange(s)
    THEN [status |-> OK, eos |-> TRUE]
    ELSE [status |-> s, eos |-> FALSE]

\* Lines 192-195: the call returns right after the pull when upstream
\* failed (TF_RETURN_IF_ERROR) or reported end_of_sequence.
PullReturns(up) == up.status # OK \/ up.eos

\* What a call that never reaches map_func_ selects: nothing.
NoSelection == [cap |-> captured_inputs, moves |-> <<>>, stale |-> 0, ops |-> <<>>]

\* Mutant: map_func_ is applied before end_of_sequence is tested.
EarlyReturnAfterMap(up) ==
    [status |-> up.status, eos |-> up.eos, out |-> <<>>, pos |-> up.pos,
     src |-> up.src, pulls |-> 1,
     runs |-> IF up.status = OK /\ indices = <<>> THEN 1 ELSE 0,
     scs |-> IF up.status = OK /\ indices # <<>> THEN 1 ELSE 0, up |-> up,
     sel |-> NoSelection]

\* Mutant: an OutOfRange from upstream is taken for the end of the sequence.
EarlyReturnConverts(up) ==
    [status |-> IF IsOutOfRange(up.status) THEN OK ELSE up.status,
     eos |-> up.eos \/ IsOutOfRange(up.status), out |-> <<>>, pos |-> up.pos,
     src |-> up.src, pulls |-> 1, runs |-> 0, scs |-> 0, up |-> up,
     sel |-> NoSelection]

\* The result of such a return: upstream's status and end_of_sequence as
\* they are, out_tensors untouched.
EarlyReturn(up) ==
    [status |-> up.status, eos |-> up.eos, out |-> <<>>, pos |-> up.pos,
     src |-> up.src, pulls |-> 1, runs |-> 0, scs |-> 0, up |-> up,
     sel |-> NoSelection]

\* Lines 197-205: map_func_ on the pulled arguments, then the conversion.
MapAndReturn(up) ==
    LET m == map_func(up.args)
        c == ConvertStatus(m.status)
    IN [status |-> c.status, eos |-> c.eos, out |-> m.out, pos |-> up.pos,
        src |-> up.src, pulls |-> 1, runs |-> m.runs, scs |-> m.scs, up |-> up,
        sel |-> m.sel]

\* Mutant: the call pulls again and transforms the second record.
GetNextInternalPullsTwice(pos) ==
    LET first == UpstreamGetNext(pos)
        up == UpstreamGetNext(first.pos)
    IN IF PullReturns(up) THEN [EarlyReturn(up) EXCEPT !.pulls = 2]
       ELSE [MapAndReturn(up) EXCEPT !.pulls = 2]

\* GetNextInternal from upstream position pos: the result handed to the
\* caller, the new upstream position and what was invoked on the way.
GetNextInternal(pos) ==
    LET up == UpstreamGetNext(pos)
    IN IF PullReturns(up) THEN EarlyReturn(up) ELSE MapAndReturn(up)

NoUp == [status |-> OK, eos |-> FALSE, args |-> <<>>, pos |-> 0, src |-> 0]
NoCall == [op |-> "none", it |-> 0, status |-> OK, eos |-> FALSE, out |-> <<>>,
           src |-> 0, pulls |-> 0, runs |-> 0, scs |-> 0, insts |-> 0,
           saves |-> 0, restores |-> 0, up |-> NoUp,
           sel |-> [cap |-> <<>>, moves |-> <<>>, stale |-> 0, ops |-> <<>>]]

\* The part of a GetNext result the caller sees (src: the pull it came from).
Result(r) == [status |-> r.status, eos |-> r.eos, out |-> r.out, src |-> r.src]

InitDataset(scripts, plans) ==
    /\ input_ \in scripts
    /\ captured_inputs \in CapturedLists
    /\ indices \in plans
    \* One declared type per output: f returns one Tensor per argument, a
    \* projection one per index.
    /\ output_types_ = IF indices = <<>>
                       THEN [i \in 1..Len(CHOOSE r \in Records : TRUE) |-> "DT_INT32"]
                       ELSE [i \in 1..Len(indices) |-> "DT_INT32"]
    \* A non-empty plan means f only forwards its inputs: it cannot fail.
    /\ func_ \in IF indices = <<>> THEN [TensorVals -> RunStatuses]
                                   ELSE {[v \in TensorVals |-> OK]}
    /\ captured_func_ = [owner |-> "Dataset", id |-> 0]

InitIterators ==
    /\ iter_state = [it \in Iterators |-> "created"]
    /\ input_impl_ = [it \in Iterators |-> [state |-> "null", pos |-> 0]]
    /\ checkpoint = [it \in Iterators |-> NoCheckpoint]
    /\ exec_uses = {}
    /\ inst_count = [it \in Iterators |-> 0]
    /\ hist = [it \in Iterators |-> <<>>]
    /\ saved_len = [it \in Iterators |-> 0]
    /\ ref = [it \in Iterators |-> <<>>]
    /\ seg = [it \in Iterators |-> <<>>]
    /\ last = NoCall
    /\ calls = [it \in Iterators |-> 0]
    /\ frames = [t \in Threads |-> [pc |-> "idle", args |-> <<>>, src |-> 0]]

Init == InitDataset(SeqsUpTo(PullOutcomes, MaxPulls), Plans) /\ InitIterators

\* Mutant: the captured function is instantiated before the input is opened.
InitializeInstantiatesFirst(it) ==
    /\ iter_state[it] = "created"
    /\ exec_uses' = exec_uses \cup {<<it, ExecutorOf(it), "Instantiate">>}
    /\ inst_count' = [inst_count EXCEPT ![it] = @ + 1]
    /\ \E ins \in {OK, InstantiateError} : \E mk \in {OK, MakeIteratorError} :
        IF ins # OK \/ mk # OK
        THEN /\ iter_state' = [iter_state EXCEPT ![it] = "failed"]
             /\ last' = [NoCall EXCEPT !.op = "Initialize", !.it = it,
                                       !.status = IF ins # OK THEN ins ELSE mk,
                                       !.insts = 1,
                                       !.up = [NoUp EXCEPT
                                                 !.status = IF ins # OK THEN ins
                                                            ELSE mk]]
             /\ UNCHANGED input_impl_
        ELSE /\ input_impl_' = [input_impl_ EXCEPT ![it] = [state |-> "open", pos |-> 0]]
             /\ iter_state' = [iter_state EXCEPT ![it] = "initialized"]
             /\ last' = [NoCall EXCEPT !.op = "Initialize", !.it = it,
                                       !.status = OK, !.insts = 1]
    /\ UNCHANGED <<dataset_vars, checkpoint, hist, saved_len, ref, seg, calls, frames>>

\* Iterator::Initialize: MakeIterator on the input, then Instantiate; the
\* status of the last of the two that was called is kept in last.up.status.
Initialize(it) ==
    /\ iter_state[it] = "created"
    /\ \E mk \in {OK, MakeIteratorError} :
        IF mk # OK
        THEN /\ iter_state' = [iter_state EXCEPT ![it] = "failed"]
             /\ last' = [NoCall EXCEPT !.op = "Initialize", !.it = it, !.status = mk,
                                       !.up = [NoUp EXCEPT !.status = mk]]
             /\ UNCHANGED <<input_impl_, exec_uses, inst_count>>
        ELSE \E ins \in {OK, InstantiateError} :
             /\ input_impl_' = [input_impl_ EXCEPT ![it] = [state |-> "open", pos |-> 0]]
             /\ exec_uses' = exec_uses \cup {<<it, ExecutorOf(it), "Instantiate">>}
             /\ inst_count' = [inst_count EXCEPT ![it] = @ + 1]
             /\ iter_state' = [iter_state EXCEPT
                                 ![it] = IF ins = OK THEN "initialized" ELSE "failed"]
             /\ last' = [NoCall EXCEPT !.op = "Initialize", !.it = it,
                                       !.status = ins, !.insts = 1,
                                       !.up = [NoUp EXCEPT !.status = ins]]
    /\ UNCHANGED <<dataset_vars, checkpoint, hist, saved_len, ref, seg, calls, frames>>

\* The record of a completed GetNext call, as kept in last.
GetNextCall(it, r) ==
    [NoCall EXCEPT !.op = "GetNext", !.it = it, !.status = r.status,
                   !.eos = r.eos, !.out = r.out, !.src = r.src, !.pulls = r.pulls,
                   !.runs = r.runs, !.scs = r.scs, !.up = r.up, !.sel = r.sel]

\* One whole GetNextInternal call by a single caller.
GetNext(it) ==
    /\ iter_state[it] = "initialized"
    /\ calls[it] < MaxCalls
    /\ LET r == GetNextInternal(input_impl_[it].pos)
       IN /\ input_impl_' = [input_impl_ EXCEPT ![it].pos = r.pos]
          /\ exec_uses' = IF r.runs > 0
                          THEN exec_uses \cup {<<it, ExecutorOf(it), "Run">>}
                          ELSE exec_uses
          /\ hist' = [hist EXCEPT ![it] = Append(@, Result(r))]
          /\ seg' = [seg EXCEPT ![it] = Append(@, Result(r))]
          /\ last' = GetNextCall(it, r)
          /\ captured_inputs' = r.sel.cap
    /\ calls' = [calls EXCEPT ![it] = @ + 1]
    /\ UNCHANGED <<dataset_rest, iter_state, checkpoint, inst_count, saved_len, ref,
                   frames>>

\* Mutant: the status of SaveInput is dropped and Save reports success.
SaveInternalSwallowsError(it) ==
    /\ iter_state[it] = "initialized"
    /\ \E s \in {OK, SaveError} :
        /\ IF s = OK
           THEN /\ checkpoint' = [checkpoint EXCEPT ![it] = input_impl_[it].pos]
                /\ saved_len' = [saved_len EXCEPT ![it] = Len(hist[it])]
           ELSE UNCHANGED <<checkpoint, saved_len>>
        /\ last' = [NoCall EXCEPT !.op = "Save", !.it = it, !.status = OK,
                                  !.saves = 1, !.up = [NoUp EXCEPT !.status = s]]
    /\ UNCHANGED <<dataset_vars, iter_state, input_impl_, exec_uses, inst_count, hist,
                   ref, seg, calls, frames>>

\* Iterator::SaveInternal: SaveInput writes the upstream iterator's state;
\* s is the status of the upstream save, kept in last.up.status.
SaveInternal(it) ==
    /\ iter_state[it] = "initialized"
    /\ \E s \in {OK, SaveError} :
        /\ IF s = OK
           THEN /\ checkpoint' = [checkpoint EXCEPT ![it] = input_impl_[it].pos]
                /\ saved_len' = [saved_len EXCEPT ![it] = Len(hist[it])]
           ELSE UNCHANGED <<checkpoint, saved_len>>
        /\ last' = [NoCall EXCEPT !.op = "Save", !.it = it, !.status = s,
                                  !.saves = 1, !.up = [NoUp EXCEPT !.status = s]]
    /\ UNCHANGED <<dataset_vars, iter_state, input_impl_, exec_uses, inst_count, hist,
                   ref, seg, calls, frames>>

\* Mutant: Restore reopens the upstream iterator at its start.
RestoreInternalFromStart(it) ==
    /\ iter_state[it] = "initialized"
    /\ IF checkpoint[it] = NoCheckpoint
       THEN /\ last' = [NoCall EXCEPT !.op = "Restore", !.it = it,
                                      !.status = RestoreError, !.restores = 1]
            /\ UNCHANGED <<input_impl_, hist, ref, seg>>
       ELSE /\ input_impl_' = [input_impl_ EXCEPT ![it].pos = 0]
            /\ ref' = [ref EXCEPT
                         ![it] = SubSeq(hist[it], saved_len[it] + 1, Len(hist[it]))]
            /\ hist' = [hist EXCEPT ![it] = SubSeq(@, 1, saved_len[it])]
            /\ seg' = [seg EXCEPT ![it] = <<>>]
            /\ last' = [NoCall EXCEPT !.op = "Restore", !.it = it, !.status = OK,
                                      !.restores = 1]
    /\ UNCHANGED <<dataset_vars, iter_state, checkpoint, exec_uses, inst_count,
                   saved_len, calls, frames>>

\* Mutant: a successful Restore instantiates the captured function again.
RestoreInternalInstantiates(it) ==
    /\ iter_state[it] = "initialized"
    /\ IF checkpoint[it] = NoCheckpoint
       THEN /\ last' = [NoCall EXCEPT !.op = "Restore", !.it = it,
                                      !.status = RestoreError, !.restores = 1]
            /\ UNCHANGED <<input_impl_, hist, ref, seg, exec_uses, inst_count>>
       ELSE /\ input_impl_' = [input_impl_ EXCEPT ![it].pos = checkpoint[it]]
            /\ ref' = [ref EXCEPT
                         ![it] = SubSeq(hist[it], saved_len[it] + 1, Len(hist[it]))]
            /\ hist' = [hist EXCEPT ![it] = SubSeq(@, 1, saved_len[it])]
            /\ seg' = [seg EXCEPT ![it] = <<>>]
            /\ exec_uses' = exec_uses \cup {<<it, captured_func_, "Instantiate">>}
            /\ inst_count' = [inst_count EXCEPT ![it] = @ + 1]
            /\ last' = [NoCall EXCEPT !.op = "Restore", !.it = it, !.status = OK,
                                      !.restores = 1, !.insts = 1]
    /\ UNCHANGED <<dataset_vars, iter_state, checkpoint, saved_len, calls, frames>>

\* Iterator::RestoreInternal: RestoreInput restores the upstream iterator.
RestoreInternal(it) ==
    /\ iter_state[it] = "initialized"
    /\ IF checkpoint[it] = NoCheckpoint
       THEN /\ last' = [NoCall EXCEPT !.op = "Restore", !.it = it,
                                      !.status = RestoreError, !.restores = 1]
            /\ UNCHANGED <<input_impl_, hist, ref, seg>>
       ELSE /\ input_impl_' = [input_impl_ EXCEPT ![it].pos = checkpoint[it]]
            /\ ref' = [ref EXCEPT
                         ![it] = SubSeq(hist[it], saved_len[it] + 1, Len(hist[it]))]
            /\ hist' = [hist EXCEPT ![it] = SubSeq(@, 1, saved_len[it])]
            /\ seg' = [seg EXCEPT ![it] = <<>>]
            /\ last' = [NoCall EXCEPT !.op = "Restore", !.it = it, !.status = OK,
                                      !.restores = 1]
    /\ UNCHANGED <<dataset_vars, iter_state, checkpoint, exec_uses, inst_count,
                   saved_len, calls, frames>>

\* ------------------------------------------------- concurrent GetNext calls
\* Several threads inside GetNextInternal of iterator ConcIterator.  Nothing
\* in the method locks: a thread pulls (line 192, atomic in the thread-safe
\* upstream), keeps the arguments in its own local args, and applies
\* map_func_ (line 197) in a later step.
ConcIterator == CHOOSE it \in SingleIterator : TRUE

\* Mutant: args is one vector shared by the calls instead of a local.
GetNextPullShared(t) ==
    /\ iter_state[ConcIterator] = "initialized"
    /\ frames[t].pc = "idle"
    /\ calls[ConcIterator] < MaxCalls
    /\ calls' = [calls EXCEPT ![ConcIterator] = @ + 1]
    /\ LET up == UpstreamGetNext(input_impl_[ConcIterator].pos)
       IN /\ input_impl_' = [input_impl_ EXCEPT ![ConcIterator].pos = up.pos]
          /\ IF PullReturns(up)
             THEN /\ hist' = [hist EXCEPT
                                ![ConcIterator] = Append(@, Result(EarlyReturn(up)))]
                  /\ last' = GetNextCall(ConcIterator, EarlyReturn(up))
                  /\ UNCHANGED frames
             ELSE /\ frames' = [u \in Threads |->
                                  IF u = t \/ frames[u].pc = "pulled"
                                  THEN [pc |-> "pulled", args |-> up.args,
                                        src |-> up.src]
                                  ELSE frames[u]]
                  /\ UNCHANGED <<hist, last>>
    /\ UNCHANGED <<dataset_vars, iter_state, checkpoint, exec_uses, inst_count,
                   saved_len, ref, seg>>

GetNextPull(t) ==
    /\ iter_state[ConcIterator] = "initialized"
    /\ frames[t].pc = "idle"
    /\ calls[ConcIterator] < MaxCalls
    /\ calls' = [calls EXCEPT ![ConcIterator] = @ + 1]
    /\ LET up == UpstreamGetNext(input_impl_[ConcIterator].pos)
       IN /\ input_impl_' = [input_impl_ EXCEPT ![ConcIterator].pos = up.pos]
          /\ IF PullReturns(up)
             THEN /\ hist' = [hist EXCEPT
                                ![ConcIterator] = Append(@, Result(EarlyReturn(up)))]
                  /\ last' = GetNextCall(ConcIterator, EarlyReturn(up))
                  /\ UNCHANGED frames
             ELSE /\ frames' = [frames EXCEPT
                                  ![t] = [pc |-> "pulled", args |-> up.args,
                                          src |-> up.src]]
                  /\ UNCHANGED <<hist, last>>
    /\ UNCHANGED <<dataset_vars, iter_state, checkpoint, exec_uses, inst_count,
                   saved_len, ref, seg>>

GetNextMap(t) ==
    /\ frames[t].pc = "pulled"
    /\ LET up == [status |-> OK, eos |-> FALSE, args |-> frames[t].args,
                  pos |-> input_impl_[ConcIterator].pos, src |-> frames[t].src]
           r == MapAndReturn(up)
       IN /\ hist' = [hist EXCEPT ![ConcIterator] = Append(@, Result(r))]
          /\ last' = GetNextCall(ConcIterator, r)
          /\ exec_uses' = IF r.runs > 0
                          THEN exec_uses \cup
                                   {<<ConcIterator, ExecutorOf(ConcIterator), "Run">>}
                          ELSE exec_uses
          /\ captured_inputs' = r.sel.cap
    /\ frames' = [frames EXCEPT ![t] = [pc |-> "idle", args |-> <<>>, src |-> 0]]
    /\ UNCHANGED <<dataset_rest, iter_state, input_impl_, checkpoint, inst_count,
                   saved_len, ref, seg, calls>>

\* ---------------------------------------------------------- specifications
\* One iterator, one caller: each handler runs to completion.
Next ==
    \E it \in SingleIterator :
        \/ Initialize(it)
        \/ GetNext(it)
        \/ SaveInternal(it)
        \/ RestoreInternal(it)

Spec == Init /\ [][Next]_vars

\* One iterator, NumThreads callers of GetNext.
NextConc ==
    \/ Initialize(ConcIterator)
    \/ \E t \in Threads : GetNextPull(t)
    \/ \E t \in Threads : GetNextMap(t)

SpecConc == Init /\ [][NextConc]_vars

\* NumIterators iterators made from the one Dataset node, one caller each.
InitIters ==
    /\ InitDataset({s \in SeqsUpTo(PullOutcomes, MaxPulls) : Len(s) <= 1}, Plans)
    /\ InitIterators

NextIters ==
    \E it \in Iterators :
        \/ Initialize(it)
        \/ GetNext(it)

SpecIters == InitIters /\ [][NextIters]_vars

\* The short-circuit map_func on every valid plan: one iterator over a
\* dataset of one record, for each non-empty plan of at most MaxPlanLen
\* valid indices.
InitPlan ==
    /\ InitDataset({<<o>> : o \in {x \in PullOutcomes : x.status = OK}},
                   SeqsUpTo(ValidIndices, MaxPlanLen) \ {<<>>})
    /\ InitIterators

NextPlan ==
    \E it \in SingleIterator :
        \/ Initialize(it)
        \/ GetNext(it)

SpecPlan == InitPlan /\ [][NextPlan]_vars

\* ------------------------------------------------------------------ claims
\* The iterator of the single-caller specification.
It == CHOOSE it \in SingleIterator : TRUE

\* No Restore has rewound the iterator: hist[It][n] is the n-th GetNext call.
NoRewind == calls[It] = Len(hist[It])

\* Pull n yields a record on which map_func_ succeeds.
PullIsClean(n) ==
    /\ n \in 1..Len(input_)
    /\ input_[n].status = OK
    /\ map_func(input_[n].args).status = OK

\* Pull n yields a record on which the executor fails with status kind code.
RunFailsWith(n, code) ==
    /\ n \in 1..Len(input_)
    /\ input_[n].status = OK
    /\ indices = <<>>
    /\ func_[input_[n].args[1]].code = code

\* C1: with one caller and no error or deliberate termination among the
\* first n pulls, the n-th GetNext returns the transformation of the record
\* of the n-th upstream pull, and every GetNext pulls upstream exactly once.
C1_OutputFollowsPullOrder ==
    /\ last.op = "GetNext" => last.pulls = 1
    /\ NoRewind =>
        \A n \in 1..Len(hist[It]) :
            (\A k \in 1..n : PullIsClean(k)) =>
                hist[It][n] = [status |-> OK, eos |-> FALSE,
                               out |-> map_func(input_[n].args).out, src |-> n]

C1_Witness ==
    /\ NoRewind
    /\ Len(hist[It]) = 2
    /\ PullIsClean(1) /\ PullIsClean(2)
    /\ hist[It][1].out # hist[It][2].out
    /\ hist[It][2].out # <<>>

\* C2: when the executor fails with OutOfRange on the k-th pull, the k-th
\* GetNext returns end_of_sequence = true with status OK, and the earlier
\* GetNext calls have returned their records as usual.
C2_OutOfRangeEndsSequence ==
    NoRewind =>
        \A k \in 1..Len(hist[It]) :
            RunFailsWith(k, "OutOfRange") =>
                /\ hist[It][k].status = OK
                /\ hist[It][k].eos
                /\ hist[It][k].src = k
                /\ \A n \in 1..(k - 1) :
                       PullIsClean(n) =>
                           hist[It][n] = [status |-> OK, eos |-> FALSE,
                                          out |-> UserFunc(input_[n].args),
                                          src |-> n]

C2_Witness ==
    /\ NoRewind
    /\ Len(hist[It]) = 2
    /\ PullIsClean(1)
    /\ RunFailsWith(2, "OutOfRange")
    /\ last.op = "GetNext" /\ last.eos /\ last.runs = 1

\* C3: once a GetNext has returned end_of_sequence = true, every later
\* GetNext of the iterator returns end_of_sequence = true and no record.
C3_EndOfSequenceIsTerminal ==
    NoRewind =>
        \A i \in 1..Len(hist[It]) : \A j \in i..Len(hist[It]) :
            hist[It][i].eos =>
                /\ hist[It][j].eos
                /\ hist[It][j].out = <<>>

\* C4: when the upstream pull reports end_of_sequence, GetNext returns
\* end_of_sequence = true with status OK and out_tensors untouched, and
\* neither the executor nor the short-circuit selection is invoked; with an
\* upstream that is empty from the start no GetNext ever runs the executor.
C4_UpstreamEndSkipsMapFunc ==
    /\ (last.op = "GetNext" /\ last.up.status = OK /\ last.up.eos) =>
           /\ last.status = OK
           /\ last.eos
           /\ last.out = <<>>
           /\ last.runs = 0
           /\ last.scs = 0
    /\ input_ = <<>> =>
           /\ \A u \in exec_uses : u[3] # "Run"
           /\ \A n \in 1..Len(hist[It]) :
                  hist[It][n] = [status |-> OK, eos |-> TRUE, out |-> <<>>, src |-> 0]

C4_Witness ==
    /\ input_ = <<>>
    /\ last.op = "GetNext" /\ last.up.eos
    /\ Len(hist[It]) = 1

\* Pull n yields a record on which the executor fails with an error other
\* than OutOfRange.
RunFailsOtherwise(n) ==
    /\ n \in 1..Len(input_)
    /\ input_[n].status = OK
    /\ indices = <<>>
    /\ func_[input_[n].args[1]] # OK
    /\ ~IsOutOfRange(func_[input_[n].args[1]])

Min(a, b) == IF a <= b THEN a ELSE b

\* C5: after a Restore of a checkpoint, the GetNext calls return what the
\* GetNext calls that followed the Save of that checkpoint returned (records,
\* end_of_sequence and errors alike), deliberate terminations included.
C5_SaveRestoreRoundTrip ==
    \A n \in 1..Min(Len(seg[It]), Len(ref[It])) : seg[It][n] = ref[It][n]

C5_Witness ==
    /\ last.op = "GetNext"
    /\ Len(seg[It]) = 2 /\ Len(ref[It]) = 2
    /\ RunFailsWith(seg[It][1].src, "OutOfRange")
    /\ seg[It][1].eos
    /\ seg[It][2].out # <<>>

\* C6 as stated: every successful Restore instantiates the executor again.
C6_RestoreInstantiates ==
    (last.op = "Restore" /\ last.status = OK) => last.insts = 1

\* C6 amended: Restore restores the upstream iterator and nothing else; it
\* succeeds with the upstream position of the checkpoint and never calls
\* Instantiate, which stays called once, by Initialize.
C6_RestoreOnlyRestoresInput ==
    last.op = "Restore" =>
        /\ last.insts = 0
        /\ inst_count[It] = 1
        /\ last.status = OK =>
               /\ checkpoint[It] # NoCheckpoint
               /\ input_impl_[It].pos = checkpoint[It]

C6_Witness ==
    /\ last.op = "Restore" /\ last.status = OK
    /\ Len(ref[It]) >= 1
    /\ inst_count[It] = 1

\* C9: when the upstream pull fails, with OutOfRange or any other error,
\* GetNext returns that very status, end_of_sequence stays false, map_func_
\* is not invoked and upstream is pulled once.
C9_UpstreamErrorVerbatim ==
    (last.op = "GetNext" /\ last.up.status # OK) =>
        /\ last.status = last.up.status
        /\ ~last.eos
        /\ last.out = <<>>
        /\ last.runs = 0 /\ last.scs = 0
        /\ last.pulls = 1
        /\ input_impl_[It].pos = last.src

C9_Witness ==
    /\ last.op = "GetNext"
    /\ last.up.status \in UpstreamErrors
    /\ IsOutOfRange(last.up.status)
    /\ last.status = last.up.status

\* C10: when the executor fails on the n-th pull with an error that is not
\* OutOfRange, the n-th GetNext returns exactly that error with
\* end_of_sequence false, and the next GetNext goes on with pull n + 1.
C10_RunErrorVerbatim ==
    NoRewind =>
        \A n \in 1..Len(hist[It]) :
            RunFailsOtherwise(n) =>
                /\ hist[It][n] = [status |-> func_[input_[n].args[1]],
                                  eos |-> FALSE, out |-> <<>>, src |-> n]
                /\ n < Len(hist[It]) =>
                       hist[It][n + 1].src = IF n < Len(input_) THEN n + 1 ELSE 0

C10_Witness ==
    /\ NoRewind
    /\ Len(hist[It]) = 2
    /\ RunFailsOtherwise(1)
    /\ PullIsClean(2)
    /\ hist[It][2].src = 2 /\ hist[It][2].out # <<>>

\* The threads holding the record of pull p between their pull and their
\* map_func_ step, and the completed calls whose result came from pull p.
Held(p) == {t \in Threads : frames[t].pc = "pulled" /\ frames[t].src = p}
Delivered(p) ==
    {n \in 1..Len(hist[ConcIterator]) : hist[ConcIterator][n].src = p}

\* C7: under concurrent GetNext calls every upstream pull belongs to exactly
\* one call: while that call is in progress it alone holds the record, and
\* once it has completed exactly one result stems from the pull, the
\* transformation of that very record; none is duplicated, none is lost.
C7_EachPullDeliveredOnce ==
    \A p \in 1..input_impl_[ConcIterator].pos :
        /\ Cardinality(Held(p)) + Cardinality(Delivered(p)) = 1
        /\ \A t \in Held(p) : frames[t].args = input_[p].args
        /\ \A n \in Delivered(p) :
               IF input_[p].status # OK
               THEN hist[ConcIterator][n].status = input_[p].status
               ELSE /\ hist[ConcIterator][n].out = map_func(input_[p].args).out
                    /\ hist[ConcIterator][n].status =
                           ConvertStatus(map_func(input_[p].args).status).status

\* Two calls overlapped and completed in the reverse of their pull order.
C7_Witness ==
    /\ \A t \in Threads : frames[t].pc = "idle"
    /\ Len(hist[ConcIterator]) = 2
    /\ hist[ConcIterator][1].src = 2 /\ hist[ConcIterator][2].src = 1
    /\ hist[ConcIterator][1].out # <<>> /\ hist[ConcIterator][2].out # <<>>
    /\ hist[ConcIterator][1].out # hist[ConcIterator][2].out

\* C8: no CapturedFunction object is instantiated or run by two different
\* iterators made from the same Dataset node.
C8_ExecutorExclusive ==
    \A u \in exec_uses : \A v \in exec_uses : u[1] # v[1] => u[2] # v[2]

\* Two iterators made from the same Dataset node have each instantiated and
\* run the same CapturedFunction object.
C8_Witness ==
    \E i \in Iterators : \E j \in Iterators :
        /\ i # j
        /\ {<<i, captured_func_, "Instantiate">>, <<i, captured_func_, "Run">>,
            <<j, captured_func_, "Instantiate">>, <<j, captured_func_, "Run">>}
               \subseteq exec_uses

\* C11: the strategy is that of the plan fixed at MakeDataset, for every
\* iterator and every pull: with an empty plan a GetNext that pulled a record
\* runs the executor once and never the short-circuit selection; with a
\* non-empty plan no GetNext of any iterator runs the executor.
C11_StrategyFixedByPlan ==
    /\ (last.op = "GetNext" /\ last.up.status = OK /\ ~last.up.eos) =>
           IF indices = <<>>
           THEN last.runs = 1 /\ last.scs = 0
           ELSE last.runs = 0 /\ last.scs = 1
    /\ indices # <<>> => \A u \in exec_uses : u[3] # "Run"
    /\ indices = <<>> =>
           \A it \in Iterators :
               (\E n \in 1..Len(hist[it]) : hist[it][n].src > 0
                                             /\ input_[hist[it][n].src].status = OK)
                   => <<it, captured_func_, "Run">> \in exec_uses

C11_Witness ==
    /\ indices = <<>>
    /\ last.op = "GetNext" /\ last.runs = 1 /\ last.scs = 0
    /\ \A it \in Iterators : <<it, captured_func_, "Run">> \in exec_uses

\* The value position i of the plan selects from the pulled arguments args.
Selected(args, i) ==
    IF indices[i] < Len(args)
    THEN args[indices[i] + 1]
    ELSE captured_inputs[indices[i] - Len(args) + 1]

\* C12: with a non-empty plan the record GetNext returns has one field per
\* plan entry, and field i is pulled argument indices[i] when indices[i] is
\* below the argument count and captured input indices[i] - argument count
\* otherwise, identical to its source whether it was moved or copied.
C12_ShortCircuitSelects ==
    (last.op = "GetNext" /\ indices # <<>> /\ last.up.status = OK /\ ~last.up.eos) =>
        /\ Len(last.out) = Len(indices)
        /\ \A i \in 1..Len(indices) : last.out[i] = Selected(last.up.args, i)

C12_Witness ==
    /\ last.op = "GetNext" /\ last.scs = 1
    /\ indices = <<2, 0, 2>>
    /\ last.out = <<captured_inputs[1], last.up.args[1], captured_inputs[1]>>
    /\ last.sel.ops = <<"copy", "move", "copy">>

\* C13: no Initialize, GetNext, Save or Restore changes the Dataset node: its
\* input, function, captured inputs, plan, CapturedFunction object and
\* declared output types stay as MakeDataset set them; the short-circuit
\* selection in particular leaves the captured inputs in place.
C13_DatasetNeverMutated == [][dataset_vars' = dataset_vars]_vars

\* A projection has selected a captured input that its plan uses once, after
\* a Save and a Restore, and the captured inputs are still there.
C13_Witness ==
    /\ indices = <<0, 2>>
    /\ ComputeMoveVector(indices)[2]
    /\ last.op = "GetNext" /\ last.scs = 1
    /\ last.out[2] = captured_inputs[1]
    /\ captured_inputs \in CapturedLists
    /\ Len(hist[It]) = 2
    /\ Len(ref[It]) >= 1

\* C14: Save is the upstream iterator's save and nothing more: one upstream
\* save, no pull and no call of the function, the upstream save's status
\* returned unchanged, the checkpoint holding the upstream position alone,
\* and the iterator left where its GetNext calls had brought it.
C14_SaveDelegatesToInput ==
    /\ last.op = "Save" =>
           /\ last.saves = 1
           /\ last.status = last.up.status
           /\ last.pulls = 0 /\ last.runs = 0 /\ last.scs = 0 /\ last.insts = 0
           /\ last.status = OK => checkpoint[It] = input_impl_[It].pos
    /\ input_impl_[It].pos = Min(Len(hist[It]), Len(input_))
    /\ checkpoint[It] # NoCheckpoint =>
           checkpoint[It] = Min(saved_len[It], Len(input_))

C14_Witness ==
    /\ last.op = "Save" /\ last.status = SaveError
    /\ checkpoint[It] = 1
    /\ input_impl_[It].pos = 2

\* The number of plan positions that select source index ix.
Uses(ix) == Cardinality({j \in 1..Len(indices) : indices[j] = ix})

\* C15: with can_move[i] true iff indices[i] occurs once in the plan (so
\* that <<2, 0, 2>> gives <<FALSE, TRUE, FALSE>>), one GetNext call moves
\* from no argument slot twice and reads no slot it has already moved from,
\* whatever the valid plan.
C15_NoSlotMovedTwice ==
    /\ \A i \in 1..Len(indices) :
           ComputeMoveVector(indices)[i] <=> Uses(indices[i]) = 1
    /\ indices = <<2, 0, 2>> => ComputeMoveVector(indices) = <<FALSE, TRUE, FALSE>>
    /\ (last.op = "GetNext" /\ last.scs = 1) =>
           /\ last.sel.stale = 0
           /\ \A slot \in 1..Len(last.sel.moves) : last.sel.moves[slot] <= 1
           /\ \A i \in 1..Len(last.out) : last.out[i] # MovedFrom

\* Argument 1 was selected twice and copied, argument 0 once and moved.
C15_Witness ==
    /\ indices = <<1, 0, 1>>
    /\ last.op = "GetNext" /\ last.scs = 1
    /\ last.sel.ops = <<"copy", "move", "copy">>
    /\ last.sel.moves = <<1, 0>>
    /\ last.out = <<last.up.args[2], last.up.args[1], last.up.args[2]>>

\* C16 as stated: every output position is moved when can_move holds for it
\* and copied otherwise, for pulled arguments and captured inputs alike.
C16_MovedIffCanMove ==
    (last.op = "GetNext" /\ last.scs = 1) =>
        \A i \in 1..Len(indices) :
            (last.sel.ops[i] = "move") <=> ComputeMoveVector(indices)[i]

\* C16 amended: an output position is moved exactly when can_move holds for
\* it and it selects a pulled argument, whose slot is then left moved from;
\* a position that selects a captured input is copied whatever can_move
\* says, and the captured inputs stay in place.
C16_MovedIffCanMoveArgument ==
    (last.op = "GetNext" /\ last.scs = 1) =>
        /\ Len(last.sel.ops) = Len(indices)
        /\ \A i \in 1..Len(indices) :
               (last.sel.ops[i] = "move") <=>
                   (ComputeMoveVector(indices)[i] /\ indices[i] < Len(last.up.args))
        /\ \A slot \in 1..Len(last.up.args) :
               last.sel.moves[slot] = IF Uses(slot - 1) = 1 THEN 1 ELSE 0
        /\ last.sel.cap = captured_inputs

C16_Witness ==
    /\ indices = <<0, 2>>
    /\ ComputeMoveVector(indices) = <<TRUE, TRUE>>
    /\ last.op = "GetNext" /\ last.scs = 1
    /\ last.sel.ops = <<"move", "copy">>
    /\ last.sel.moves = <<1, 0>>

\* C17: Initialize opens the upstream iterator and then instantiates the
\* captured function: when MakeIterator fails its error is returned and
\* Instantiate is not called, when Instantiate fails its error is returned,
\* and whatever Initialize, GetNext, Save and Restore calls follow, an
\* iterator whose upstream was opened has called Instantiate exactly once.
C17_InitializeOrder ==
    /\ last.op = "Initialize" =>
           /\ last.status = last.up.status
           /\ last.insts = 0 <=> last.status = MakeIteratorError
           /\ last.insts = 0 =>
                  /\ input_impl_[It].state = "null"
                  /\ inst_count[It] = 0
                  /\ exec_uses = {}
           /\ last.insts = 1 =>
                  /\ input_impl_[It].state = "open"
                  /\ last.status \in {OK, InstantiateError}
           /\ iter_state[It] = "initialized" <=> last.status = OK
    /\ inst_count[It] = IF input_impl_[It].state = "open" THEN 1 ELSE 0
    /\ last.op \in {"GetNext", "Save", "Restore"} => last.insts = 0

C17_Witness ==
    /\ last.op = "Restore" /\ last.status = OK
    /\ calls[It] >= 2
    /\ Len(ref[It]) >= 1
    /\ inst_count[It] = 1

\* C18: with a non-empty plan GetNext reports end_of_sequence exactly when
\* the upstream pull did and fails exactly when the upstream pull failed,
\* with upstream's status: the selection never fails, so the OutOfRange
\* conversion is not taken.
C18_ShortCircuitNeverEnds ==
    (last.op = "GetNext" /\ indices # <<>>) =>
        /\ last.eos <=> last.up.eos
        /\ last.status = last.up.status
        /\ last.runs = 0
        /\ (last.up.status = OK /\ ~last.up.eos) => last.scs = 1 /\ ~last.eos

C18_Witness ==
    /\ indices = <<2, 0, 2>>
    /\ Len(hist[It]) = 3
    /\ hist[It][1].out # <<>> /\ ~hist[It][1].eos
    /\ hist[It][2].status \in UpstreamErrors
    /\ hist[It][3].eos /\ hist[It][3].src = 0
    /\ NoRewind

====
